---- MODULE Spec2Model ----
(***************************************************************************)
(* ServiceHub backend (FastAPI + SQLAlchemy): the service registry         *)
(* (users, services, grants, access requests), the nginx fragments of the  *)
(* services and the nginx auth_request gate, as state machines over the    *)
(* relational tables, the fragment directory and the clock.                *)
(*                                                                         *)
(* Tables are sets of rows.  Columns that no handler reads to take a       *)
(* decision (names, descriptions, dates, show_info, admin_created,         *)
(* user_removed, password hashes) are left out of the rows.                *)
(***************************************************************************)
EXTENDS Integers, Sequences, FiniteSets, TLC

(***************************************************************************)
(* Bounds of the model.                                                    *)
(***************************************************************************)
\* service_requests holds at most this many rows at a time
MaxRequests == 2
\* a gate request of GateOrderSpec carries a value in at most this many
\* token sources
MaxSources == 2
\* the clock runs from 0 to this many token lifetimes
MaxTime == 2
\* users.id goes up to this number
MaxUsers == 3

(***************************************************************************)
(* Program constants.                                                      *)
(***************************************************************************)
\* main.py: "if user_id == 1" protects the main admin account; it is the
\* first row create_initial_admin inserts
AdminId == 1

AdminEmail == "admin@gmail.com"
TestEmail == "test1@gmail.com"
\* an address no users row ever carries
GhostEmail == "ghost@gmail.com"
\* an address somebody registers with, and one outside ALLOWED_DOMAIN
NewEmail == "new@gmail.com"
OutsideEmail == "new@example.com"

\* models.RequestStatus
PENDING == "pending"
APPROVED == "approved"
REJECTED == "rejected"
REMOVE_PENDING == "remove_pending"
RequestStatus == {PENDING, APPROVED, REJECTED, REMOVE_PENDING}

\* models.UserStatus
UserStatus == {"pending", "approved", "rejected"}

\* the engines database.py may bind the session to
Dialects == {"sqlite", "postgresql"}

(***************************************************************************)
(* Text.  A service id is the first characters of a uuid4: hexadecimal     *)
(* digits, modelled as a sequence of one-character strings.                *)
(***************************************************************************)
Digits == {"0", "1", "2", "3", "4", "5", "6", "7", "8", "9"}

DigitValue(c) ==
    CASE c = "0" -> 0 [] c = "1" -> 1 [] c = "2" -> 2 [] c = "3" -> 3
      [] c = "4" -> 4 [] c = "5" -> 5 [] c = "6" -> 6 [] c = "7" -> 7
      [] c = "8" -> 8 [] c = "9" -> 9

DigitChar(d) ==
    CASE d = 0 -> "0" [] d = 1 -> "1" [] d = 2 -> "2" [] d = 3 -> "3"
      [] d = 4 -> "4" [] d = 5 -> "5" [] d = 6 -> "6" [] d = 7 -> "7"
      [] d = 8 -> "8" [] d = 9 -> "9"

\* the value int() raises ValueError on
ValueError == -1

\* Python int(text) on a text of hexadecimal characters: the decimal value
\* when every character is a digit, ValueError otherwise (and on "")
RECURSIVE DecimalValue(_, _)
DecimalValue(text, acc) ==
    IF text = << >> THEN acc
    ELSE DecimalValue(Tail(text), acc * 10 + DigitValue(Head(text)))

int(text) ==
    IF text # << >> /\ \A i \in 1..Len(text) : text[i] \in Digits
    THEN DecimalValue(text, 0)
    ELSE ValueError

\* the decimal text of a natural number, as the engine renders an integer
\* it compares with a text column
RECURSIVE str(_)
str(n) ==
    IF n < 10 THEN << DigitChar(n) >>
    ELSE Append(str(n \div 10), DigitChar(n % 10))

\* the ids uuid4()[:8] is drawn from: one all-digit id, one with a letter
ServiceIds == { <<"1", "2">>, <<"a", "1">> }

(***************************************************************************)
(* State.                                                                  *)
(***************************************************************************)
VARIABLES
    users,                  \* table users: rows [id, email, is_admin, status]
    services,               \* table services: the ids of its rows
    user_services,          \* table user_services (the Grants): rows [user_id, service_id]
    user_allowed_services,  \* table user_allowed_services: rows [user_id, service_id]
    service_requests,       \* table service_requests: rows [id, user_id, service_id, status]
    service_access,         \* table service_access: rows [user_id, service_id]
    service_status,         \* table service_status (the status history): rows [service_id]
    dialect,                \* the engine behind the session, fixed per deployment
    config_files,           \* the ids whose fragment service_<id>.conf is in /etc/nginx/services.d
    nginx_loaded,           \* the ids whose fragment the running nginx has loaded
    now,                    \* datetime.utcnow(), in token lifetimes since the start
    workers,                \* create_service_request handlers between their query and their insert
    evaluation,             \* the URL an admin posts for a service, and what is computed from it
    last                    \* the HTTP exchange that completed last, until its response is delivered

vars == << users, services, user_services, user_allowed_services,
           service_requests, service_access, service_status, dialect,
           config_files, nginx_loaded, now, workers, evaluation, last >>

registry == << users, services, user_services, user_allowed_services,
               service_requests, service_access, service_status >>

\* what a handler of the tables alone leaves as it is: the engine, the
\* fragments on disk, the configuration nginx runs with, and the clock
deployment == << dialect, config_files, nginx_loaded, now, evaluation >>

\* the worker processes that serve requests concurrently
Workers == {"w1", "w2"}

NoService == << >>
IdleWorker == [pc |-> "idle", user_id |-> 0, service_id |-> NoService, valid |-> TRUE]

Max(S) == CHOOSE x \in S : \A y \in S : y <= x
Min(S) == CHOOSE x \in S : \A y \in S : x <= y

\* Column(Integer, primary_key=True): the engine hands out the next rowid
NextId(rows) == IF rows = {} THEN 1 ELSE Max({r.id : r \in rows}) + 1

Grant(u, s) == [user_id |-> u, service_id |-> s]

has_grant(u, s) == Grant(u, s) \in user_services

UserByEmail(email) == {u \in users : u.email = email}
UserById(id) == {u \in users : u.id = id}
RequestById(id) == {r \in service_requests : r.id = id}
RequestsOf(u, s) == {r \in service_requests : r.user_id = u /\ r.service_id = s}

\* Service.id == <an int>: a text column compared with an integer.  SQLite
\* gives the integer the column's TEXT affinity and compares the texts;
\* PostgreSQL has no operator varchar = integer and raises.
IntComparisonRaises == dialect = "postgresql"
ServiceByIntId(n) == {s \in services : s = str(n)}

\* whether the engine checks ForeignKey(...) on insert (SQLite does not
\* unless the foreign_keys pragma is set)
ForeignKeysEnforced == dialect = "postgresql"

(***************************************************************************)
(* The exchange record.  A handler runs from the request to the response   *)
(* in one step and leaves the exchange in last; Respond delivers it.       *)
(***************************************************************************)
\* the request an exchange of another handler than auth_check carries: the
\* model keeps no part of it
NoRequest ==
    [path |-> << >>, authorization |-> << >>, x_auth_token |-> << >>,
     uri_token |-> << >>, referer_token |-> << >>, cookie |-> << >>,
     x_custom |-> << >>]

\* nginxUpdated is the field of that name in the body of create_service's
\* answer, FALSE in an answer that has no such field; at is the time of the
\* clock at which the gate decided, 0 for the other handlers
\* caller is the id of the user whose token update_user_status was called
\* with, 0 for the other handlers
Exchange(op, code) ==
    [op |-> op, code |-> code, req |-> NoRequest, email |-> "", resource_type |-> "",
     nginxUpdated |-> FALSE, at |-> 0, caller |-> 0]

Idle == Exchange("", 0)

\* what parse_service_url returns: port is << >> for None and << n >> for
\* the integer n; raised tells that urlparse raised ValueError instead
NoInfo ==
    [protocol |-> "", host |-> << >>, port |-> << >>, path |-> << >>,
     is_ip |-> FALSE, raised |-> FALSE]

\* what get_nginx_config returns: the template it took and the target of
\* the proxy_pass line rendered from it
NoConfig == [template |-> "", proxy_pass |-> << >>]

\* no URL is being worked on
NoEvaluation ==
    [step |-> "", url |-> << >>, protocol |-> "", url_info |-> NoInfo, service |-> NoInfo,
     config |-> NoConfig, full_url |-> << >>, again |-> NoInfo]

Started ==
    \* create_initial_admin and create_test_data have run
    /\ users = { [id |-> AdminId, email |-> AdminEmail, is_admin |-> TRUE, status |-> "approved"],
                 [id |-> 2, email |-> TestEmail, is_admin |-> FALSE, status |-> "approved"] }
    /\ services = {}
    /\ user_services = {}
    /\ user_allowed_services = {}
    /\ service_requests = {}
    /\ service_access = {}
    /\ service_status = {}
    /\ dialect \in Dialects
    /\ config_files = {}
    /\ nginx_loaded = {}
    /\ now = 0
    /\ workers = [w \in Workers |-> IdleWorker]
    /\ last = Idle

Init == Started /\ evaluation = NoEvaluation

\* time passes
Tick ==
    /\ now < MaxTime
    /\ now' = now + 1
    /\ UNCHANGED << registry, dialect, config_files, nginx_loaded, workers, evaluation, last >>

\* the response of the last exchange reaches the client
Respond ==
    /\ last # Idle
    /\ last' = Idle
    /\ UNCHANGED << registry, deployment, workers >>

\* a handler's step that answers with the given status code and changes
\* no table
Refuse(op, code) ==
    /\ last' = Exchange(op, code)
    /\ UNCHANGED << registry, deployment, workers >>

(***************************************************************************)
(* auth.py: the nginx fragment of a service                                *)
(***************************************************************************)
\* what the nginx container answers to "nginx -t" and "nginx -s reload"
NginxOutcomes == {"ok", "test_failed", "reload_failed"}

\* a faulty update_nginx_config, which leaves the fragment it wrote on disk
\* when nginx refuses it
update_nginx_config_keeps_file(service_id, outcome) ==
    [config_files |-> config_files \cup {service_id},
     nginx_loaded |-> IF outcome = "ok" THEN config_files \cup {service_id}
                      ELSE nginx_loaded,
     raised |-> outcome # "ok"]

\* update_nginx_config(service): open(config_file, "w") writes the fragment
\* over whatever the file held; a non-zero exit code of "nginx -t" or of
\* "nginx -s reload" removes the file and raises; a reload makes nginx run
\* with the fragments on disk
update_nginx_config(service_id, outcome) ==
    LET written == config_files \cup {service_id} IN
    IF outcome = "ok"
    THEN [config_files |-> written, nginx_loaded |-> written, raised |-> FALSE]
    ELSE [config_files |-> written \ {service_id}, nginx_loaded |-> nginx_loaded,
          raised |-> TRUE]

(***************************************************************************)
(* services.py: services                                                   *)
(***************************************************************************)
\* a faulty admin test, which lets every caller pass
is_admin_anyone(current_user) == TRUE

\* current_user.is_admin
is_admin(current_user) == current_user.is_admin

\* POST /services
create_service(caller, id, outcome) ==
    /\ last = Idle
    /\ IF ~is_admin(caller)
       THEN Refuse("create_service", 403)
       ELSE IF id \in services
       THEN \* db.flush() raises IntegrityError on the primary key
            Refuse("create_service", 500)
       ELSE LET nginx == update_nginx_config(id, outcome) IN
            \* the except around update_nginx_config keeps the row: db.commit()
            \* follows in both cases
            /\ services' = services \cup {id}
            /\ config_files' = nginx.config_files
            /\ nginx_loaded' = nginx.nginx_loaded
            /\ last' = [Exchange("create_service", 200) EXCEPT !.nginxUpdated = ~nginx.raised]
            /\ UNCHANGED << users, user_services, user_allowed_services,
                            service_requests, service_access, service_status,
                            dialect, now, workers, evaluation >>

\* a faulty bulk delete, which deletes nothing
WithoutServiceKept(rows, id) == rows

\* db.query(...).filter(... .service_id == service_id).delete()
WithoutService(rows, id) == {r \in rows : r.service_id # id}

\* a faulty relationship, which leaves the service_access rows of a deleted
\* service as they are
accesses_kept(id) == service_access

\* ServiceAccess.service = relationship("Service", backref="accesses"): no
\* delete cascade, so db.delete(service) sets service_id of the rows in
\* service.accesses to NULL
accesses_detached(id) ==
    {IF a.service_id = id THEN [a EXCEPT !.service_id = NoService] ELSE a :
        a \in service_access}

\* the statements of delete_service between try and return, in their order:
\* the four bulk deletes, then db.delete(service) with db.commit()
DeleteStatements == 1..5

\* the tables as the transaction of delete_service sees them after its
\* first n statements
DeletedThrough(id, n) ==
    [service_requests |-> IF n >= 1 THEN WithoutService(service_requests, id)
                          ELSE service_requests,
     service_status |-> IF n >= 2 THEN WithoutService(service_status, id)
                        ELSE service_status,
     user_services |-> IF n >= 3 THEN WithoutService(user_services, id)
                       ELSE user_services,
     user_allowed_services |-> IF n >= 4 THEN WithoutService(user_allowed_services, id)
                               ELSE user_allowed_services,
     service_access |-> IF n >= 5 THEN accesses_detached(id) ELSE service_access,
     services |-> IF n >= 5 THEN services \ {id} ELSE services]

\* a faulty rollback, which commits what the transaction has done so far
rollback_skipped(before, pending) == pending

\* db.rollback(): the tables are as they were before the transaction
rollback(before, pending) == before

\* DELETE /services/{service_id}.  fault is the statement at which the
\* engine raises (the database is locked, the connection is lost), 0 when
\* none does.
delete_service(caller, id, fault) ==
    /\ last = Idle
    /\ IF ~caller.is_admin
       THEN Refuse("delete_service", 403)
       ELSE IF id \notin services
       THEN \* the HTTPException(404) is raised inside the try and re-raised as 500
            Refuse("delete_service", 500)
       ELSE LET before == DeletedThrough(id, 0)
                after == IF fault = 0 THEN DeletedThrough(id, 5)
                         ELSE rollback(before, DeletedThrough(id, fault - 1))
            IN  /\ service_requests' = after.service_requests
                /\ service_status' = after.service_status
                /\ user_services' = after.user_services
                /\ user_allowed_services' = after.user_allowed_services
                /\ service_access' = after.service_access
                /\ services' = after.services
                /\ last' = Exchange("delete_service", IF fault = 0 THEN 200 ELSE 500)
                /\ UNCHANGED << users, deployment, workers >>

\* GET /services/{service_id}/status, up to "await check_service_health":
\* the handler waits for the service to answer and other handlers run
get_service_status_check(w, service_id) ==
    /\ last = Idle
    /\ workers[w].pc = "idle"
    /\ IF service_id \notin services
       THEN Refuse("get_service_status", 404)
       ELSE /\ workers' = [workers EXCEPT ![w] = [pc |-> "history", user_id |-> 0,
                                                   service_id |-> service_id,
                                                   valid |-> TRUE]]
            /\ UNCHANGED << registry, deployment, last >>

\* the same handler in update_service_status_history: db.add(new_status) and
\* db.commit(), then "await" on the None commit returned raises TypeError,
\* which the handler answers with 500
get_service_status_history(w) ==
    /\ last = Idle
    /\ workers[w].pc = "history"
    /\ workers' = [workers EXCEPT ![w] = IdleWorker]
    /\ last' = Exchange("get_service_status", 500)
    /\ IF ForeignKeysEnforced /\ workers[w].service_id \notin services
       THEN UNCHANGED << registry, deployment >>
       ELSE /\ service_status' = service_status \cup {[service_id |-> workers[w].service_id]}
            /\ UNCHANGED << users, services, user_services, user_allowed_services,
                            service_requests, service_access, deployment >>

\* the recorder of access events: a service_access row for the user who
\* opens the service
record_service_access(user, service_id) ==
    /\ last = Idle
    /\ IF service_id \notin services
       THEN Refuse("record_service_access", 404)
       ELSE /\ service_access' = service_access \cup {Grant(user.id, service_id)}
            /\ last' = Exchange("record_service_access", 200)
            /\ UNCHANGED << users, services, user_services, user_allowed_services,
                            service_requests, service_status, deployment, workers >>

(***************************************************************************)
(* services.py: grants given and taken by an admin                         *)
(***************************************************************************)
\* the email lists an admin posts: "a, b" split on commas
EmailLists == { << TestEmail >>, << GhostEmail >>, << TestEmail, TestEmail >>,
                << GhostEmail, TestEmail >> }

\* a faulty add_users_to_service, which gives the grant and writes no request
new_request_dropped(requests, user_id, service_id) == requests

\* new_request = models.ServiceRequest(..., status=RequestStatus.APPROVED,
\* admin_created=True) and db.add(new_request)
new_request(requests, user_id, service_id) ==
    requests \cup {[id |-> NextId(requests), user_id |-> user_id,
                    service_id |-> service_id, status |-> APPROVED]}

\* the loop of add_users_to_service over email_list from position i on:
\* an unknown email and a user who has the grant already are skipped; the
\* others get a user_services row and a service_requests row in status
\* approved
RECURSIVE AddUsers(_, _, _, _, _)
AddUsers(emails, i, service_id, grants, requests) ==
    IF i > Len(emails) THEN [grants |-> grants, requests |-> requests]
    ELSE LET found == UserByEmail(emails[i]) IN
         IF found = {} THEN AddUsers(emails, i + 1, service_id, grants, requests)
         ELSE LET user == CHOOSE u \in found : TRUE IN
              IF Grant(user.id, service_id) \in grants
              THEN AddUsers(emails, i + 1, service_id, grants, requests)
              ELSE AddUsers(emails, i + 1, service_id,
                            grants \cup {Grant(user.id, service_id)},
                            new_request(requests, user.id, service_id))

\* POST /services/{service_id}/users
add_users_to_service(caller, service_id, emails) ==
    /\ last = Idle
    /\ IF ~caller.is_admin
       THEN Refuse("add_users_to_service", 403)
       ELSE IF service_id \notin services
       THEN Refuse("add_users_to_service", 404)
       ELSE LET done == AddUsers(emails, 1, service_id, user_services, service_requests) IN
            /\ \A r \in done.requests : r.id <= MaxRequests
            /\ user_services' = done.grants
            /\ service_requests' = done.requests
            /\ last' = Exchange("add_users_to_service", 200)
            /\ UNCHANGED << users, services, user_allowed_services, service_access, service_status,
                            deployment, workers >>

\* DELETE /services/{service_id}/users/{user_id}
delete_service_user(caller, service_id, user_id) ==
    /\ last = Idle
    /\ IF ~caller.is_admin
       THEN Refuse("delete_service_user", 403)
       ELSE /\ user_services' = user_services \ {Grant(user_id, service_id)}
            /\ service_requests' = service_requests \ RequestsOf(user_id, service_id)
            \* db.commit() comes before the rowcount test, whose HTTPException(404)
            \* the handler's own except turns into a 500
            /\ last' = Exchange("delete_service_user",
                                IF has_grant(user_id, service_id) THEN 200 ELSE 500)
            /\ UNCHANGED << users, services, user_allowed_services, service_access, service_status,
                            deployment, workers >>

\* POST /services/users/{user_id}/service-permissions
update_user_service_permissions(caller, user_id, service_ids) ==
    /\ last = Idle
    /\ IF ~caller.is_admin
       THEN Refuse("update_user_service_permissions", 403)
       ELSE IF UserById(user_id) = {}
       THEN Refuse("update_user_service_permissions", 404)
       ELSE LET current_service_ids ==
                    {a.service_id : a \in {x \in user_allowed_services : x.user_id = user_id}}
                to_remove == current_service_ids \ service_ids
                to_add == service_ids \ current_service_ids
            IN  /\ user_allowed_services' =
                       {a \in user_allowed_services :
                            ~(a.user_id = user_id /\ a.service_id \in to_remove)}
                       \cup {Grant(user_id, s) : s \in to_add \cap services}
                /\ user_services' =
                       {g \in user_services :
                            ~(g.user_id = user_id /\ g.service_id \in to_remove)}
                /\ service_requests' =
                       {r \in service_requests :
                            ~(r.user_id = user_id /\ r.service_id \in to_remove)}
                /\ last' = Exchange("update_user_service_permissions", 200)
                /\ UNCHANGED << users, services, service_access, service_status, deployment, workers >>

(***************************************************************************)
(* main.py: users                                                          *)
(***************************************************************************)
\* DELETE /users/{user_id}
delete_user(caller, user_id) ==
    /\ last = Idle
    /\ IF ~caller.is_admin \/ user_id = AdminId
       THEN Refuse("delete_user", 403)
       ELSE IF UserById(user_id) = {}
       THEN Refuse("delete_user", 404)
       ELSE IF \E u \in UserById(user_id) : u.is_admin
       THEN Refuse("delete_user", 403)
       ELSE /\ service_requests' = {r \in service_requests : r.user_id # user_id}
            /\ user_services' = {g \in user_services : g.user_id # user_id}
            \* db.delete(user) also empties the secondary table of
            \* User.allowed_services
            /\ user_allowed_services' = {a \in user_allowed_services : a.user_id # user_id}
            \* and sets user_id of the rows in user.service_accesses to NULL
            /\ service_access' =
                   {IF a.user_id = user_id THEN [a EXCEPT !.user_id = 0] ELSE a :
                       a \in service_access}
            /\ users' = users \ UserById(user_id)
            /\ last' = Exchange("delete_user", 200)
            /\ UNCHANGED << services, service_status, deployment, workers >>

\* POST /users/bulk with one user in the list
create_users_bulk(caller, email) ==
    /\ last = Idle
    /\ IF ~caller.is_admin
       THEN Refuse("create_users_bulk", 403)
       ELSE IF UserByEmail(email) # {}
       THEN \* the unique index on users.email: the user lands in results["failed"]
            Refuse("create_users_bulk", 200)
       ELSE /\ NextId(users) <= MaxUsers
            /\ users' = users \cup {[id |-> NextId(users), email |-> email,
                                     is_admin |-> FALSE, status |-> "approved"]}
            /\ last' = Exchange("create_users_bulk", 200)
            /\ UNCHANGED << services, user_services, user_allowed_services,
                            service_requests, service_access, service_status, deployment, workers >>

\* a faulty update_user_status, which serves every caller
update_user_status_by_anyone(caller, user_id, status) ==
    /\ last = Idle
    /\ IF UserById(user_id) = {}
       THEN Refuse("update_user_status", 404)
       ELSE /\ users' = {IF u.id = user_id THEN [u EXCEPT !.status = status] ELSE u : u \in users}
            /\ last' = [Exchange("update_user_status", 200) EXCEPT !.caller = caller.id]
            /\ UNCHANGED << services, user_services, user_allowed_services,
                            service_requests, service_access, service_status, deployment, workers >>

\* PUT /users/{user_id}/status
update_user_status(caller, user_id, status) ==
    /\ last = Idle
    /\ IF ~caller.is_admin
       THEN Refuse("update_user_status", 403)
       ELSE IF UserById(user_id) = {}
       THEN Refuse("update_user_status", 404)
       ELSE /\ users' = {IF u.id = user_id THEN [u EXCEPT !.status = status] ELSE u : u \in users}
            /\ last' = [Exchange("update_user_status", 200) EXCEPT !.caller = caller.id]
            /\ UNCHANGED << services, user_services, user_allowed_services,
                            service_requests, service_access, service_status, deployment, workers >>

\* user.email.endswith(f"@{ALLOWED_DOMAIN}"), on the addresses of the model
InAllowedDomain(email) == email \in {AdminEmail, TestEmail, GhostEmail, NewEmail}

\* POST /register
register(email) ==
    /\ last = Idle
    /\ IF ~InAllowedDomain(email)
       THEN Refuse("register", 400)
       ELSE IF UserByEmail(email) # {}
       THEN Refuse("register", 400)
       ELSE /\ NextId(users) <= MaxUsers
            /\ users' = users \cup {[id |-> NextId(users), email |-> email,
                                     is_admin |-> FALSE, status |-> "pending"]}
            /\ last' = Exchange("register", 200)
            /\ UNCHANGED << services, user_services, user_allowed_services,
                            service_requests, service_access, service_status, deployment, workers >>

\* PUT /users/{user_id} with is_admin in the body
update_user(caller, user_id, flag) ==
    /\ last = Idle
    /\ IF ~caller.is_admin \/ user_id = AdminId
       THEN Refuse("update_user", 403)
       ELSE IF UserById(user_id) = {}
       THEN Refuse("update_user", 404)
       ELSE /\ users' = {IF u.id = user_id THEN [u EXCEPT !.is_admin = flag] ELSE u : u \in users}
            /\ last' = Exchange("update_user", 200)
            /\ UNCHANGED << services, user_services, user_allowed_services,
                            service_requests, service_access, service_status, deployment, workers >>

\* DELETE /users with the list user_ids.  The rows are deleted by queries,
\* not through the session: the engine, when it enforces foreign keys,
\* cascades to user_allowed_services and refuses while a service_access row
\* names one of the users.
delete_multiple_users(caller, user_ids) ==
    /\ last = Idle
    /\ IF ~caller.is_admin \/ AdminId \in user_ids
       THEN Refuse("delete_multiple_users", 403)
       ELSE IF ForeignKeysEnforced /\ \E a \in service_access : a.user_id \in user_ids
       THEN Refuse("delete_multiple_users", 500)
       ELSE /\ service_requests' = {r \in service_requests : r.user_id \notin user_ids}
            \* user.services = [] for the users found
            /\ user_services' = {g \in user_services : g.user_id \notin user_ids}
            /\ user_allowed_services' =
                   IF ForeignKeysEnforced
                   THEN {a \in user_allowed_services : a.user_id \notin user_ids}
                   ELSE user_allowed_services
            /\ users' = {u \in users : u.id \notin user_ids}
            /\ last' = Exchange("delete_multiple_users", 200)
            /\ UNCHANGED << services, service_access, service_status, deployment, workers >>

\* a faulty login, which follows authenticate_user
login_blocks(user) == user.status \in {"pending", "rejected"} /\ ~user.is_admin

\* the only status test of login: user.status == models.UserStatus.PENDING
login_blocked(user) == user.status = "pending"

\* POST /login; password_ok tells whether verify_password accepts the
\* password posted.  The answer carries the token: its sub is in email.
login(email, password_ok) ==
    /\ last = Idle
    /\ IF UserByEmail(email) = {}
       THEN Refuse("login", 404)
       ELSE LET user == CHOOSE u \in UserByEmail(email) : TRUE IN
            IF login_blocked(user) THEN Refuse("login", 403)
            ELSE IF ~password_ok THEN Refuse("login", 401)
            ELSE /\ last' = [Exchange("login", 200) EXCEPT !.email = user.email]
                 /\ UNCHANGED << registry, deployment, workers >>

(***************************************************************************)
(* services.py, main.py: access requests                                   *)
(***************************************************************************)
\* the statuses whose presence makes create_service_request answer 400
Blocking == {PENDING, APPROVED}

\* POST /services/service-requests/{service_id}, up to the existing_request
\* query.  The handler is a coroutine without an await, so one process runs
\* it whole; two processes run two handlers side by side, each in its own
\* transaction, and the query of one does not see the uncommitted insert of
\* the other.
create_service_request_check(w, current_user, service_id) ==
    /\ last = Idle
    /\ workers[w].pc = "idle"
    /\ IF service_id \notin services
       THEN Refuse("create_service_request", 404)
       ELSE IF \E r \in RequestsOf(current_user.id, service_id) : r.status \in Blocking
       THEN Refuse("create_service_request", 400)
       ELSE /\ workers' = [workers EXCEPT ![w] = [pc |-> "insert", user_id |-> current_user.id,
                                                   service_id |-> service_id,
                                                   valid |-> TRUE]]
            /\ UNCHANGED << registry, deployment, last >>

\* the same handler from db.add(new_request) to its return
create_service_request_insert(w) ==
    /\ last = Idle
    /\ workers[w].pc = "insert"
    /\ workers' = [workers EXCEPT ![w] = IdleWorker]
    /\ IF ForeignKeysEnforced /\ (workers[w].service_id \notin services
                                    \/ UserById(workers[w].user_id) = {})
       THEN \* IntegrityError on commit, caught by except Exception
            /\ last' = Exchange("create_service_request", 500)
            /\ UNCHANGED << registry, deployment >>
       ELSE /\ NextId(service_requests) <= MaxRequests
            /\ service_requests' = service_requests \cup
                   {[id |-> NextId(service_requests), user_id |-> workers[w].user_id,
                     service_id |-> workers[w].service_id, status |-> PENDING]}
            /\ last' = Exchange("create_service_request", 200)
            /\ UNCHANGED << users, services, user_services, user_allowed_services,
                            service_access, service_status, deployment >>

\* PUT /services/service-requests/{request_id}/approve
approve_service_request(caller, request_id) ==
    /\ last = Idle
    /\ IF ~caller.is_admin
       THEN Refuse("approve_service_request", 403)
       ELSE IF RequestById(request_id) = {}
       THEN Refuse("approve_service_request", 404)
       ELSE LET service_request == CHOOSE r \in RequestById(request_id) : TRUE
                \* service_request.status = RequestStatus.APPROVED
                approved == (service_requests \ {service_request})
                                \cup {[service_request EXCEPT !.status = APPROVED]}
            IN
            IF \/ has_grant(service_request.user_id, service_request.service_id)
               \/ ForeignKeysEnforced /\ (service_request.service_id \notin services
                                            \/ UserById(service_request.user_id) = {})
            THEN \* the insert into user_services raises IntegrityError
                 /\ service_requests' = rollback(service_requests, approved)
                 /\ last' = Exchange("approve_service_request", 500)
                 /\ UNCHANGED << users, services, user_services, user_allowed_services,
                                 service_access, service_status, deployment, workers >>
            ELSE /\ service_requests' = approved
                 /\ user_services' = user_services \cup
                        {Grant(service_request.user_id, service_request.service_id)}
                 /\ last' = Exchange("approve_service_request", 200)
                 /\ UNCHANGED << users, services, user_allowed_services, service_access,
                                 service_status, deployment, workers >>

\* PUT /services/service-requests/{request_id}/reject
reject_service_request(caller, request_id) ==
    /\ last = Idle
    /\ IF ~caller.is_admin
       THEN Refuse("reject_service_request", 403)
       ELSE IF RequestById(request_id) = {}
       THEN Refuse("reject_service_request", 404)
       ELSE LET service_request == CHOOSE r \in RequestById(request_id) : TRUE IN
            /\ service_requests' = (service_requests \ {service_request})
                   \cup {[service_request EXCEPT !.status = REJECTED]}
            /\ last' = Exchange("reject_service_request", 200)
            /\ UNCHANGED << users, services, user_services, user_allowed_services,
                            service_access, service_status, deployment, workers >>

\* DELETE /services/service-requests/{request_id}
cancel_service_request(current_user, request_id) ==
    /\ last = Idle
    /\ LET own == {r \in RequestById(request_id) : r.user_id = current_user.id} IN
       IF own = {}
       THEN Refuse("cancel_service_request", 404)
       ELSE IF \E r \in own : r.status = APPROVED
       THEN Refuse("cancel_service_request", 400)
       ELSE /\ service_requests' = service_requests \ own
            /\ last' = Exchange("cancel_service_request", 200)
            /\ UNCHANGED << users, services, user_services, user_allowed_services,
                            service_access, service_status, deployment, workers >>

\* POST /my-services/{service_id}/remove-request; service_id: int is parsed
\* from the path segment before the handler runs
request_service_removal(current_user, segment) ==
    /\ last = Idle
    /\ LET service_id == int(segment) IN
       IF service_id = ValueError
       THEN Refuse("request_service_removal", 422)
       ELSE IF IntComparisonRaises
       THEN Refuse("request_service_removal", 500)
       ELSE IF ServiceByIntId(service_id) = {}
       THEN Refuse("request_service_removal", 404)
       ELSE LET mine == RequestsOf(current_user.id, str(service_id)) IN
            IF ~\E r \in mine : r.status = APPROVED
            THEN Refuse("request_service_removal", 404)
            ELSE IF \E r \in mine : r.status = REMOVE_PENDING
            THEN Refuse("request_service_removal", 400)
            ELSE \* .first() without order_by: any of the approved rows
                 \E approved_request \in {r \in mine : r.status = APPROVED} :
                    /\ service_requests' = (service_requests \ {approved_request})
                           \cup {[approved_request EXCEPT !.status = REMOVE_PENDING]}
                    /\ last' = Exchange("request_service_removal", 200)
                    /\ UNCHANGED << users, services, user_services, user_allowed_services,
                                    service_access, service_status, deployment, workers >>

(***************************************************************************)
(* The registry: every operation on the tables, by the admin and by the    *)
(* ordinary users.                                                         *)
(***************************************************************************)
Admins == {u \in users : u.is_admin}
Members == {u \in users : ~u.is_admin}
RequestIds == 1..MaxRequests
UserIds == {u.id : u \in users}

Next ==
    \/ \E a \in Admins, id \in ServiceIds : create_service(a, id, "ok")
    \/ \E a \in Admins, id \in ServiceIds : delete_service(a, id, 0)
    \/ \E a \in Admins, id \in ServiceIds, emails \in EmailLists :
           add_users_to_service(a, id, emails)
    \/ \E a \in Admins, id \in ServiceIds, u \in UserIds : delete_service_user(a, id, u)
    \/ \E a \in Admins, u \in UserIds, ids \in SUBSET ServiceIds :
           update_user_service_permissions(a, u, ids)
    \/ \E a \in Admins, u \in UserIds : delete_user(a, u)
    \/ \E a \in Admins : create_users_bulk(a, TestEmail)
    \/ \E w \in Workers, u \in Members, id \in ServiceIds :
           create_service_request_check(w, u, id)
    \/ \E w \in Workers : create_service_request_insert(w)
    \/ \E a \in Admins, r \in RequestIds : approve_service_request(a, r)
    \/ \E a \in Admins, r \in RequestIds : reject_service_request(a, r)
    \/ \E u \in Members, r \in RequestIds : cancel_service_request(u, r)
    \/ \E u \in Members, id \in ServiceIds : request_service_removal(u, id)
    \/ Respond

Spec == Init /\ [][Next]_vars

(***************************************************************************)
(* The catalogue: a service with its dependent rows, from its creation to  *)
(* its deletion.                                                           *)
(***************************************************************************)
\* the statement delete_service fails at, 0 for a run without failure
Faults == {0} \cup DeleteStatements

CatalogNext ==
    \/ \E a \in Admins, id \in ServiceIds : create_service(a, id, "ok")
    \/ \E a \in Admins, id \in ServiceIds, fault \in Faults : delete_service(a, id, fault)
    \/ \E a \in Admins, id \in ServiceIds : add_users_to_service(a, id, << TestEmail >>)
    \/ \E a \in Admins, u \in Members, ids \in SUBSET ServiceIds :
           update_user_service_permissions(a, u.id, ids)
    \/ \E id \in ServiceIds : get_service_status_check("w1", id)
    \/ get_service_status_history("w1")
    \/ \E u \in Members, id \in ServiceIds : record_service_access(u, id)
    \/ Respond

CatalogSpec == Init /\ [][CatalogNext]_vars

(***************************************************************************)
(* The fragments: services are created by any caller, with every answer    *)
(* of nginx, and deleted.                                                  *)
(***************************************************************************)
ConfigNext ==
    \/ \E u \in users, id \in ServiceIds, outcome \in NginxOutcomes :
           create_service(u, id, outcome)
    \/ \E a \in Admins, id \in ServiceIds : delete_service(a, id, 0)
    \/ Respond

ConfigSpec == Init /\ [][ConfigNext]_vars

(***************************************************************************)
(* The accounts: registration, login and the administration of users, by   *)
(* every caller with a token.                                              *)
(***************************************************************************)
UserNext ==
    \/ \E email \in {TestEmail, NewEmail, OutsideEmail} : register(email)
    \/ \E u \in users, email \in {TestEmail, NewEmail} : create_users_bulk(u, email)
    \/ \E u \in users, id \in 1..MaxUsers, status \in UserStatus :
           update_user_status(u, id, status)
    \/ \E u \in users, id \in 1..MaxUsers, flag \in BOOLEAN : update_user(u, id, flag)
    \/ \E u \in users, id \in 1..MaxUsers : delete_user(u, id)
    \/ \E u \in users, ids \in SUBSET (1..MaxUsers) : delete_multiple_users(u, ids)
    \/ \E email \in {AdminEmail, TestEmail, NewEmail, GhostEmail}, password_ok \in BOOLEAN :
           login(email, password_ok)
    \/ Respond

UserSpec == Init /\ [][UserNext]_vars

(***************************************************************************)
(* Properties of the registry.                                             *)
(***************************************************************************)
\* the ids a users row can have
AllUserIds == 1..2

\* C1: in every state reachable by the registry operations, for every
\* (user, service) pair a user_services row exists if and only if some
\* service_requests row of the pair has status approved.
C1_GrantIffApprovedRequest ==
    \A u \in AllUserIds, s \in ServiceIds :
        has_grant(u, s) <=> \E r \in RequestsOf(u, s) : r.status = APPROVED

\* the statuses the specification calls non-terminal
NonTerminal == {PENDING, APPROVED, REMOVE_PENDING}

\* C9: in every reachable state a (user, service) pair has at most one
\* service_requests row in a non-terminal status (pending, approved,
\* remove_pending), also after concurrent creations and after an admin has
\* added the user directly.
C9_AtMostOneNonTerminalRequest ==
    \A u \in AllUserIds, s \in ServiceIds :
        Cardinality({r \in RequestsOf(u, s) : r.status \in NonTerminal}) <= 1

\* the transitions of the specification's state machine
AllowedTransitions ==
    { << PENDING, APPROVED >>, << PENDING, REJECTED >>,
      << APPROVED, REMOVE_PENDING >>, << REMOVE_PENDING, "removed" >> }

\* C10: the status of a service_requests row changes only along pending to
\* approved, pending to rejected, approved to remove_pending and
\* remove_pending to removed; in particular approve and reject leave an
\* approved or rejected row as it is and a rejected row never becomes
\* approved.
C10_StatusChangesAlongStateMachine ==
    [][\A r \in service_requests : \A r2 \in service_requests' :
          (r.id = r2.id /\ r.status # r2.status)
              => << r.status, r2.status >> \in AllowedTransitions]_vars

\* C11: when an admin approves a request whose status is remove_pending,
\* the call answers 200 and afterwards the user of the request has no
\* user_services row for its service.
C11_ApprovedRemovalDeletesGrant ==
    [][\A a \in Admins : \A r \in service_requests :
          (r.status = REMOVE_PENDING /\ approve_service_request(a, r.id))
              => (last'.code = 200
                  /\ Grant(r.user_id, r.service_id) \notin user_services')]_vars

\* C12: no step creates a user_services row without an approved request:
\* whenever a step adds the row of a (user, service) pair, the state it
\* leads to holds a service_requests row of the pair with status approved,
\* written by the same commit or by an earlier one.
C12_GrantOnlyWithApprovedRequest ==
    [][\A u \in AllUserIds, s \in ServiceIds :
          (~has_grant(u, s) /\ Grant(u, s) \in user_services')
              => \E r \in service_requests' :
                     r.user_id = u /\ r.service_id = s /\ r.status = APPROVED]_vars

\* the answer of an approve_service_request or an add_users_to_service that
\* gave a grant is on its way
C12_Witness ==
    /\ last.op \in {"approve_service_request", "add_users_to_service"}
    /\ last.code = 200
    /\ user_services # {}

\* C18: approve_service_request is atomic over service_requests and
\* user_services: when it answers 200 the request is approved and the grant
\* of its pair exists; when it answers anything else both tables are as
\* they were before the call.
C18_ApproveIsAtomic ==
    [][\A a \in users : \A r \in service_requests :
          approve_service_request(a, r.id)
              => IF last'.code = 200
                 THEN /\ [r EXCEPT !.status = APPROVED] \in service_requests'
                      /\ Grant(r.user_id, r.service_id) \in user_services'
                 ELSE UNCHANGED << service_requests, user_services >>]_vars

\* an approval has failed on a request that was not approved before
C18_Witness ==
    /\ last.op = "approve_service_request"
    /\ last.code = 500
    /\ \E r \in service_requests : r.status # APPROVED /\ has_grant(r.user_id, r.service_id)

(***************************************************************************)
(* Properties of the catalogue.                                            *)
(***************************************************************************)
\* the rows of a table that carry the service id
Referencing(rows, id) == {r \in rows : r.service_id = id}

\* C13: when delete_service(id) answers 200, the state it leads to has no
\* user_services, user_allowed_services, service_requests or service_status
\* row with that service id, and no services row with that id.
C13_DeleteRemovesDependents ==
    [][\A a \in Admins, id \in ServiceIds, fault \in Faults :
          (delete_service(a, id, fault) /\ last'.code = 200)
              => /\ id \notin services'
                 /\ Referencing(user_services', id) = {}
                 /\ Referencing(user_allowed_services', id) = {}
                 /\ Referencing(service_requests', id) = {}
                 /\ Referencing(service_status', id) = {}]_vars

\* a service has been deleted while the other one keeps rows in all four
\* dependent tables
C13_Witness ==
    /\ last.op = "delete_service"
    /\ last.code = 200
    /\ \E id \in services :
          /\ Referencing(user_services, id) # {}
          /\ Referencing(user_allowed_services, id) # {}
          /\ Referencing(service_requests, id) # {}
          /\ Referencing(service_status, id) # {}

C15_DeleteIsAllOrNothing ==
    [][\A a \in Admins, id \in ServiceIds, fault \in Faults :
          (delete_service(a, id, fault) /\ last'.code # 200)
              => UNCHANGED registry]_vars

\* delete_service has failed after its first statements on a service with
\* dependent rows: both services exist, so the 500 is not the one for an
\* unknown id
C15_Witness ==
    /\ last.op = "delete_service"
    /\ last.code = 500
    /\ services = ServiceIds
    /\ \A id \in ServiceIds :
          Referencing(service_requests, id) # {} /\ Referencing(user_services, id) # {}

(***************************************************************************)
(* Properties of the fragments.                                            *)
(***************************************************************************)
\* the answers of nginx that make update_nginx_config fail
Failures == NginxOutcomes \ {"ok"}

\* C16: when update_nginx_config fails at "nginx -t" or at the reload, it
\* has raised, no fragment of the service is on disk that the call wrote,
\* and the fragment of the service that was on disk before the call and the
\* configuration nginx runs with are as they were before the call.
C16_FailedUpdateLeavesConfiguration ==
    [][\A a \in Admins, id \in ServiceIds \ services, outcome \in Failures :
          create_service(a, id, outcome)
              => /\ update_nginx_config(id, outcome).raised
                 /\ config_files' = config_files
                 /\ nginx_loaded' = nginx_loaded]_vars

C20_CreateByNonAdminRefused ==
    [][\A u \in Members, id \in ServiceIds, outcome \in NginxOutcomes :
          create_service(u, id, outcome)
              => /\ last'.code = 403
                 /\ UNCHANGED << services, config_files >>]_vars

\* a create_service has been refused
C20_Witness ==
    /\ last.op = "create_service"
    /\ last.code = 403

(***************************************************************************)
(* Properties of the accounts.                                             *)
(***************************************************************************)
\* C21: a users row is pending when register created it and approved when
\* create_users_bulk did; the status of a row changes only in a step of
\* update_user_status called by an admin, so no call of a caller who is no
\* admin changes the status of any user.
C21_StatusOnlyByAdmin ==
    [][/\ \A n \in users' :
             n.id \notin {u.id : u \in users}
                 => /\ last'.op = "register" => n.status = "pending"
                    /\ last'.op = "create_users_bulk" => n.status = "approved"
       /\ \A u \in users : \A n \in users' :
             (u.id = n.id /\ u.status # n.status)
                 => /\ last'.op = "update_user_status"
                    /\ \E a \in Admins : a.id = last'.caller]_vars

\* a user who registered (and so was pending) has been rejected by an admin
\* while a user who is no admin is there to call the handlers
C21_Witness ==
    /\ last.op = "update_user_status"
    /\ last.code = 200
    /\ \E u \in users : u.email = NewEmail /\ u.status = "rejected"
    /\ \E u \in users : u.email = TestEmail /\ ~u.is_admin

(***************************************************************************)
(* auth.py: the gate GET /auth that nginx asks with auth_request.          *)
(*                                                                         *)
(* A text (the URI, a header value, a token) is a sequence of lexemes: a   *)
(* separator, a word or a whole token.  The string operations of the       *)
(* handler work on these sequences.                                        *)
(***************************************************************************)
\* pattern in text
Contains(text, pattern) ==
    \E i \in 1..(Len(text) - Len(pattern) + 1) :
        SubSeq(text, i, i + Len(pattern) - 1) = pattern

\* text.startswith(prefix)
startswith(text, prefix) ==
    Len(text) >= Len(prefix) /\ SubSeq(text, 1, Len(prefix)) = prefix

\* text.split(sep)
RECURSIVE split(_, _)
split(text, sep) ==
    IF ~\E i \in 1..Len(text) : text[i] = sep THEN << text >>
    ELSE LET i == CHOOSE k \in 1..Len(text) :
                      text[k] = sep /\ \A j \in 1..(k - 1) : text[j] # sep
         IN  << SubSeq(text, 1, i - 1) >> \o split(SubSeq(text, i + 1, Len(text)), sep)

\* text.replace("Bearer ", "")
StripBearer(text) == SelectSeq(text, LAMBDA x : x # "Bearer ")

\* re.search(r"[?&]token=([^&]+)", text): the capture of the first match, or
\* the empty text
TokenParameter(text) ==
    LET starts == {i \in 1..(Len(text) - 2) :
                       /\ text[i] \in {"?", "&"}
                       /\ text[i + 1] = "token="
                       /\ text[i + 2] # "&"}
    IN  IF starts = {} THEN << >>
        ELSE LET i == Min(starts)
                 stop == {k \in (i + 2)..Len(text) : text[k] = "&"}
             IN  SubSeq(text, i + 2,
                        IF stop = {} THEN Len(text)
                        ELSE Min(stop) - 1)

\* the token texts a client can send.  create_access_token issued the
\* first five; the "forged" one has the shape of a JWT and a signature made
\* with another key; "opaque" is a text that is no JWT.
AdminToken == "eyJ.admin"
TestToken == "eyJ.test1"
GhostToken == "eyJ.ghost"
NoSubToken == "eyJ.nosub"
ExpiredToken == "eyJ.test1.expired"
ForgedToken == "eyJ.test1.forged"
OpaqueToken == "opaque"
TokenTexts == {AdminToken, TestToken, GhostToken, NoSubToken, ExpiredToken,
               ForgedToken, OpaqueToken}

\* the texts r"(eyJ[\w\-]+\.eyJ[\w\-]+\.[\w\-_]+)" matches
JwtShaped == TokenTexts \ {OpaqueToken}

JWTError == [error |-> "JWTError", sub |-> ""]
None == "None"

\* the tokens whose signature was made with SECRET_KEY
Signed == {AdminToken, TestToken, GhostToken, NoSubToken, ExpiredToken}

\* the exp claim: create_access_token issued the tokens at the start with
\* one lifetime (ACCESS_TOKEN_EXPIRE_MINUTES) to live, the expired one a
\* lifetime and more before the start
exp(t) == IF t = ExpiredToken THEN 0 - 1 ELSE 1

\* the claims of a token
claims(t) ==
    CASE t = AdminToken -> [error |-> "", sub |-> AdminEmail]
      [] t \in {TestToken, ExpiredToken, ForgedToken} -> [error |-> "", sub |-> TestEmail]
      [] t = GhostToken -> [error |-> "", sub |-> GhostEmail]
      [] t = NoSubToken -> [error |-> "", sub |-> None]

\* a faulty decode, which reads the payload without verifying the signature
\* and the expiry
jwt_decode_unverified(auth_token) ==
    IF Len(auth_token) # 1 \/ auth_token[1] \notin JwtShaped THEN JWTError
    ELSE claims(auth_token[1])

\* jwt.decode(auth_token, SECRET_KEY, algorithms=[ALGORITHM]): the payload,
\* or JWTError for a text that is not one JWT, for a signature of another
\* key and for an exp before the time of the clock
jwt_decode(auth_token) ==
    IF Len(auth_token) # 1 \/ auth_token[1] \notin Signed THEN JWTError
    ELSE IF exp(auth_token[1]) < now THEN JWTError
    ELSE claims(auth_token[1])

\* static_patterns + login_patterns, those the model's URIs can contain
static_patterns == { << "/", "assets", "/" >>, << "/", "static", "/" >>, << ".js" >>,
                     << ".css" >>, << "favicon.ico" >> }
login_patterns == { << "/", "login" >>, << "/", "register" >> }

\* a faulty test, which finds no URI static
NeverStatic(request_uri) == FALSE

\* any(pattern in request_uri for pattern in static_patterns + login_patterns)
IsStatic(request_uri) ==
    \E pattern \in static_patterns \cup login_patterns : Contains(request_uri, pattern)

\* the X-Original-URI header: the path and, when the client passes a token
\* in the URL, the query string
RequestUri(req) ==
    req.path \o (IF req.uri_token = << >> THEN << >>
                 ELSE << "?", "token=" >> \o req.uri_token)

\* the Referer header: a page of the hub, with the token in its query
\* string when the client put one there
Referer(req) ==
    IF req.referer_token = << >> THEN << >>
    ELSE << "http://hub", "/", "dashboard", "?", "token=" >> \o req.referer_token

\* cookie_token_names, those the model's clients use, in list order
cookie_token_names == << "token", "session_token" >>

\* cookie_dict[name] for the Cookie header as a list of name=value items;
\* a later item of the same name overwrites an earlier one
CookieNames(cookie) == {cookie[i].name : i \in 1..Len(cookie)}
CookieValue(cookie, name) ==
    cookie[Max({i \in 1..Len(cookie) : cookie[i].name = name})].value

\* the Cookie header as one text: name=value items joined by "; "
RECURSIVE CookieText(_)
CookieText(cookie) ==
    IF cookie = << >> THEN << >>
    ELSE << cookie[1].name, "=" >> \o cookie[1].value
         \o (IF Len(cookie) = 1 THEN << >> ELSE << "; " >> \o CookieText(Tail(cookie)))

\* request.headers.items(): the header values in the order nginx sends them
Headers(req) ==
    << RequestUri(req), req.authorization, req.x_auth_token, Referer(req),
       CookieText(req.cookie), req.x_custom >>

\* re.search of the JWT pattern in one header value: the first match, or
\* the empty text
JwtIn(text) ==
    LET hits == {i \in 1..Len(text) : text[i] \in JwtShaped}
    IN  IF hits = {} THEN << >> ELSE << text[Min(hits)] >>

\* step 1: the Authorization header
FromAuthorization(req) ==
    IF req.authorization = << >> THEN << >>
    ELSE IF Contains(req.authorization, << "Bearer " >>)
    THEN StripBearer(req.authorization)
    ELSE req.authorization

\* step 2: auth_headers, of which the model's clients use X-Auth-Token
FromAuthHeaders(req) == req.x_auth_token

\* step 3: the token parameter of X-Original-URI, then of Referer
FromQuery(req) ==
    LET in_uri == IF Contains(RequestUri(req), << "token=" >>)
                  THEN TokenParameter(RequestUri(req)) ELSE << >>
    IN  IF in_uri # << >> THEN in_uri
        ELSE IF Contains(Referer(req), << "token=" >>)
        THEN TokenParameter(Referer(req)) ELSE << >>

\* step 4: the first name of cookie_token_names the Cookie header carries,
\* whatever its value
FromCookies(req) ==
    LET named == {i \in 1..Len(cookie_token_names) :
                      cookie_token_names[i] \in CookieNames(req.cookie)}
    IN  IF named = {} THEN << >>
        ELSE LET value == CookieValue(req.cookie, cookie_token_names[Min(named)])
             IN  IF startswith(value, << "Bearer " >>) THEN StripBearer(value) ELSE value

\* step 5: the first header value that holds a text of the shape of a JWT
FromJwtPattern(req) ==
    LET holders == {i \in 1..Len(Headers(req)) : JwtIn(Headers(req)[i]) # << >>}
    IN  IF holders = {} THEN << >> ELSE JwtIn(Headers(req)[Min(holders)])

\* a faulty extraction, which reads the cookies before the headers
ExtractTokenCookiesFirst(req) ==
    LET t1 == FromCookies(req)
        t2 == IF t1 # << >> THEN t1 ELSE FromAuthorization(req)
        t3 == IF t2 # << >> THEN t2 ELSE FromAuthHeaders(req)
        t4 == IF t3 # << >> THEN t3 ELSE FromQuery(req)
    IN  IF t4 # << >> THEN t4 ELSE FromJwtPattern(req)

\* auth_token after the five steps, each of which runs only while no
\* earlier step has produced a token
ExtractToken(req) ==
    LET t1 == FromAuthorization(req)
        t2 == IF t1 # << >> THEN t1 ELSE FromAuthHeaders(req)
        t3 == IF t2 # << >> THEN t2 ELSE FromQuery(req)
        t4 == IF t3 # << >> THEN t3 ELSE FromCookies(req)
    IN  IF t4 # << >> THEN t4 ELSE FromJwtPattern(req)

Response(code, email, resource_type) ==
    [code |-> code, email |-> email, resource_type |-> resource_type]

\* the answer for a static resource or a login page
StaticOk == Response(200, "guest@example.com", "static")

\* a faulty answer, which lets a request without token pass
MissingTokenAllowed == Response(200, "", "")

\* the answer when no step found a token
MissingToken == Response(401, "", "")

\* the columns and relationships of models.Service
ServiceAttributes ==
    {"id", "name", "protocol", "host", "port", "base_path", "description",
     "created_at", "show_info", "is_ip", "group_id", "users", "service_requests",
     "status_history", "group", "allowed_users", "full_url"}

\* a faulty test, which blocks no user
NobodyBlocked(user) == FALSE

\* the only test of the user's status that the handler makes
PendingBlocked(user) == user.status = "pending" /\ ~user.is_admin

\* the service access block: 0 when the handler goes on to its final
\* return, else the status code it answers with
ServiceCheck(user, request_uri) ==
    IF ~startswith(request_uri, << "/", "api", "/" >>) THEN 0
    ELSE LET parts == split(request_uri, "/") IN
         IF ~(Len(parts) > 2) THEN 0
         ELSE LET service_id == int(parts[3]) IN
              IF service_id = ValueError THEN 0
              ELSE IF IntComparisonRaises THEN 500
              ELSE IF ServiceByIntId(service_id) = {} THEN 0
              ELSE IF "is_public" \notin ServiceAttributes
              THEN \* AttributeError, caught by the outer except Exception
                   500
              ELSE IF user.is_admin THEN 0
              ELSE IF \E a \in service_access :
                          a.service_id = str(service_id) /\ a.user_id = user.id
              THEN 0
              ELSE 403

\* the handler from jwt.decode on
Verify(auth_token, request_uri) ==
    LET payload == jwt_decode(auth_token) IN
    IF payload.error # "" THEN Response(401, "", "")
    ELSE IF payload.sub = None THEN Response(401, "", "")
    ELSE IF UserByEmail(payload.sub) = {} THEN Response(401, "", "")
    ELSE LET user == CHOOSE u \in UserByEmail(payload.sub) : TRUE IN
         IF PendingBlocked(user) THEN Response(403, "", "")
         ELSE LET refused == ServiceCheck(user, request_uri) IN
              IF refused # 0 THEN Response(refused, "", "")
              ELSE Response(200, payload.sub, "")

\* the whole decision of auth_check
Decide(req) ==
    IF IsStatic(RequestUri(req)) THEN StaticOk
    ELSE LET auth_token == ExtractToken(req) IN
         IF auth_token = << >> THEN MissingToken
         ELSE Verify(auth_token, RequestUri(req))

\* a faulty gate, which records an access event on every run
auth_check_recording(req) ==
    /\ last = Idle
    /\ LET answer == Decide(req) IN
       last' = [op |-> "auth_check", code |-> answer.code, req |-> req,
                email |-> answer.email, resource_type |-> answer.resource_type,
                nginxUpdated |-> FALSE, at |-> now, caller |-> 0]
    /\ service_access' = service_access \cup {Grant(0, NoService)}
    /\ UNCHANGED << users, services, user_services, user_allowed_services,
                    service_requests, service_status, deployment, workers >>

\* GET /auth
auth_check(req) ==
    /\ last = Idle
    /\ LET answer == Decide(req) IN
       last' = [op |-> "auth_check", code |-> answer.code, req |-> req,
                email |-> answer.email, resource_type |-> answer.resource_type,
                nginxUpdated |-> FALSE, at |-> now, caller |-> 0]
    /\ UNCHANGED << registry, deployment, workers >>

(***************************************************************************)
(* The requests the gate is asked with.                                    *)
(***************************************************************************)
Paths ==
    { << "/", "dashboard" >>,
      << "/", "api", "/", "1", "2", "/", "app" >>,
      << "/", "api", "/", "1", "2" >>,
      << "/", "api", "/", "a", "1", "/", "app" >>,
      << "/", "api", "/", "1", "2", "/", "assets", "/", "logo" >>,
      << "/", "login" >> }

\* what a client puts in a header, a cookie or the query string: a token,
\* bare or behind "Bearer "
TokenValues == {<< t >> : t \in TokenTexts} \cup {<< "Bearer ", t >> : t \in TokenTexts}

\* the cookie names of the clients; "sid" is none of cookie_token_names
ClientCookies == {"token", "session_token", "sid"}

Bare(path) == [NoRequest EXCEPT !.path = path]

\* the requests that carry a value in one place at most
SingleSource(path) ==
    {Bare(path)}
    \cup {[Bare(path) EXCEPT !.authorization = v] : v \in TokenValues}
    \cup {[Bare(path) EXCEPT !.x_auth_token = v] : v \in TokenValues}
    \cup {[Bare(path) EXCEPT !.uri_token = v] : v \in TokenValues}
    \cup {[Bare(path) EXCEPT !.referer_token = v] : v \in TokenValues}
    \cup {[Bare(path) EXCEPT !.cookie = << [name |-> n, value |-> v] >>] :
              n \in ClientCookies, v \in TokenValues \cup {<< >>}}
    \cup {[Bare(path) EXCEPT !.x_custom = v] : v \in TokenValues}

GateRequests == UNION {SingleSource(path) : path \in Paths}

\* the gate over a registry in which the admin creates services, grants
\* access and sets the status of users
GateNext ==
    \/ \E req \in GateRequests : auth_check(req)
    \/ \E a \in Admins, u \in UserIds, status \in UserStatus : update_user_status(a, u, status)
    \/ \E a \in Admins, id \in ServiceIds : create_service(a, id, "ok")
    \/ \E a \in Admins, id \in ServiceIds : add_users_to_service(a, id, << TestEmail >>)
    \/ Respond

GateSpec == Init /\ [][GateNext]_vars

\* the places of a request in which a client can put a token
Places == {"authorization", "x_auth_token", "uri_token", "referer_token",
           "cookie_token", "cookie_session_token", "x_custom"}

Unset == << "unset" >>

\* the values of the requests with several sources
OrderValues == { << TestToken >>, << AdminToken >>, << ExpiredToken >>, << OpaqueToken >> }

\* the request that carries filled[n] in each place n that is set; a cookie
\* can also be present with the empty value
Filled(filled) ==
    LET at(n) == IF filled[n] = Unset THEN << >> ELSE filled[n]
        item(n, name) == IF filled[n] = Unset THEN << >>
                         ELSE << [name |-> name, value |-> filled[n]] >>
    IN  [path |-> << "/", "dashboard" >>,
         authorization |-> at("authorization"),
         x_auth_token |-> at("x_auth_token"),
         uri_token |-> at("uri_token"),
         referer_token |-> at("referer_token"),
         cookie |-> item("cookie_token", "token")
                    \o item("cookie_session_token", "session_token"),
         x_custom |-> at("x_custom")]

Fillings ==
    {f \in [Places -> OrderValues \cup {Unset, << >>}] :
        /\ \A n \in Places : f[n] = << >> => n = "cookie_token"
        /\ Cardinality({n \in Places : f[n] # Unset}) <= MaxSources}

\* the gate asked with requests that carry values in several places
GateOrderNext ==
    \/ \E f \in Fillings : auth_check(Filled(f))
    \/ \E a \in Admins, u \in UserIds, status \in UserStatus : update_user_status(a, u, status)
    \/ Respond

GateOrderSpec == Init /\ [][GateOrderNext]_vars

(***************************************************************************)
(* Properties of the gate.  They read the exchange in last: the request    *)
(* the gate was asked with and its answer, over the tables as the handler  *)
(* saw them.                                                               *)
(***************************************************************************)
Gate == last.op = "auth_check"

\* the URI holds one of the static or login patterns
StaticUri(req) ==
    \E pattern \in static_patterns \cup login_patterns : Contains(RequestUri(req), pattern)

LexemesOf(text) == {text[i] : i \in 1..Len(text)}

\* the token texts a request carries, wherever they are
Carried(req) ==
    TokenTexts \cap
        (LexemesOf(req.authorization) \cup LexemesOf(req.x_auth_token)
         \cup LexemesOf(req.uri_token) \cup LexemesOf(req.referer_token)
         \cup LexemesOf(req.x_custom)
         \cup UNION {LexemesOf(req.cookie[i].value) : i \in 1..Len(req.cookie)})

\* the request presents token t and nothing else: as "Authorization: Bearer
\* t", or bare in one header, cookie or query string
Sends(req, t) ==
    \/ req = [Bare(req.path) EXCEPT !.authorization = << "Bearer ", t >>]
    \/ req = [Bare(req.path) EXCEPT !.authorization = << t >>]
    \/ req = [Bare(req.path) EXCEPT !.x_auth_token = << t >>]
    \/ req = [Bare(req.path) EXCEPT !.uri_token = << t >>]
    \/ req = [Bare(req.path) EXCEPT !.referer_token = << t >>]
    \/ req = [Bare(req.path) EXCEPT !.x_custom = << t >>]
    \/ \E n \in ClientCookies :
           req = [Bare(req.path) EXCEPT !.cookie = << [name |-> n, value |-> << t >>] >>]

\* the token create_access_token issues to the user of this email
TokenOf(email) == IF email = AdminEmail THEN AdminToken ELSE TestToken

\* the URI of a resource of service id behind the proxy
ApiPath(id) == << "/", "api", "/" >> \o id \o << "/", "app" >>

\* the URI lies under /api/, where the segment after it names a service
UnderApi(req) == startswith(RequestUri(req), << "/", "api", "/" >>)

\* C2: asked for /api/<id>/... of a registered service with the valid token
\* of an existing approved user, the gate allows an admin, allows another
\* user who has the Grant (user_services row) and answers 403 to another
\* user who has not.
C2_ServiceAccessFollowsGrant ==
    \A id \in services, u \in users :
        (/\ Gate
         /\ last.req.path = ApiPath(id)
         /\ u.status = "approved"
         /\ Sends(last.req, TokenOf(u.email)))
        => IF u.is_admin \/ has_grant(u.id, id) THEN last.code = 200
           ELSE last.code = 403

\* C3: a request whose URI is not static and that carries no token in any
\* source is answered 401.
C3_NoTokenIs401 ==
    (Gate /\ ~StaticUri(last.req) /\ Carried(last.req) = {}) => last.code = 401

\* a non-static request without any token, its Cookie header holding an
\* empty token cookie, was answered 401
C3_Witness ==
    /\ Gate /\ ~StaticUri(last.req) /\ Carried(last.req) = {}
    /\ last.req.cookie # << >>
    /\ last.code = 401

\* C4: a request whose URI contains a static or login pattern is allowed as
\* the anonymous guest, whatever token it carries and whatever the tables
\* hold.
C4_StaticIsAllowedAsGuest ==
    (Gate /\ StaticUri(last.req))
        => /\ last.code = 200
           /\ last.email = "guest@example.com"
           /\ last.resource_type = "static"

\* a request under /api/12/assets/ with an expired token was allowed as
\* guest while no service was registered
C4_Witness ==
    /\ Gate /\ StaticUri(last.req)
    /\ UnderApi(last.req)
    /\ Carried(last.req) = {ExpiredToken}
    /\ services = {}
    /\ last.code = 200 /\ last.email = "guest@example.com"

C6_RejectedAndUnknownDenied ==
    (Gate /\ ~StaticUri(last.req))
        => /\ \A u \in users :
                  (~u.is_admin /\ u.status = "rejected" /\ Sends(last.req, TokenOf(u.email)))
                      => last.code \in {401, 403}
           /\ Sends(last.req, GhostToken) => last.code # 200
           /\ \A u \in users :
                  (u.is_admin /\ ~UnderApi(last.req) /\ Sends(last.req, TokenOf(u.email)))
                      => last.code = 200

\* the tokens jwt.decode must refuse: no JWT, signed with another key,
\* expired, without subject
InvalidTokens == {OpaqueToken, ForgedToken, ExpiredToken, NoSubToken}

\* C7: a request whose URI is not static and whose token is malformed,
\* carries a bad signature, is expired or has no subject is answered 401.
C7_InvalidTokenIs401 ==
    (Gate /\ ~StaticUri(last.req) /\ Carried(last.req) # {}
          /\ Carried(last.req) \subseteq InvalidTokens)
        => last.code = 401

\* an expired token in "Authorization: Bearer" was answered 401 while its
\* subject was an approved user
C7_Witness ==
    /\ Gate /\ ~StaticUri(last.req)
    /\ last.req.authorization = << "Bearer ", ExpiredToken >>
    /\ \E u \in users : u.email = TestEmail /\ u.status = "approved"
    /\ last.code = 401

\* the token sources in the order the handler reads them: the Authorization
\* header, the other auth headers, the query string of the URI, that of
\* the Referer, the cookies, any header with a JWT in it
Sources == << "authorization", "x_auth_token", "uri_token", "referer_token",
              "cookie", "x_custom" >>

\* the request with every source but n emptied
Keep(req, n) ==
    [path |-> req.path,
     authorization |-> IF n = "authorization" THEN req.authorization ELSE << >>,
     x_auth_token |-> IF n = "x_auth_token" THEN req.x_auth_token ELSE << >>,
     uri_token |-> IF n = "uri_token" THEN req.uri_token ELSE << >>,
     referer_token |-> IF n = "referer_token" THEN req.referer_token ELSE << >>,
     cookie |-> IF n = "cookie" THEN req.cookie ELSE << >>,
     x_custom |-> IF n = "x_custom" THEN req.x_custom ELSE << >>]

\* the sources that give a token when they stand alone
Yielding(req) == {i \in 1..Len(Sources) : ExtractToken(Keep(req, Sources[i])) # << >>}

\* C8: the sources are read in one fixed order and the first that yields a
\* token decides: the answer to a request is the answer to the request
\* reduced to its first yielding source, so an invalid token there is
\* answered 401 even when a later source holds a valid one.
C8_FirstSourceWins ==
    (Gate /\ Yielding(last.req) # {})
        => LET first == Keep(last.req, Sources[Min(Yielding(last.req))])
           IN  /\ last.code = Decide(first).code
               /\ last.email = Decide(first).email
               /\ Carried(first) \subseteq InvalidTokens => last.code = 401

\* an expired token in the Authorization header and the valid token of an
\* approved user in a cookie: answered 401
C8_Witness ==
    /\ Gate
    /\ last.req.authorization = << ExpiredToken >>
    /\ last.req.cookie = << [name |-> "token", value |-> << TestToken >>] >>
    /\ \E u \in users : u.email = TestEmail /\ u.status = "approved"
    /\ last.code = 401

(***************************************************************************)
(* The gate and the clock.                                                 *)
(***************************************************************************)
\* the requests with a bearer token in the Authorization header
ClockRequests ==
    {[Bare(path) EXCEPT !.authorization = << "Bearer ", t >>] :
        path \in Paths, t \in TokenTexts}

GateClockNext ==
    \/ \E req \in ClockRequests : auth_check(req)
    \/ Tick
    \/ \E a \in Admins, u \in UserIds, status \in UserStatus : update_user_status(a, u, status)
    \/ \E a \in Admins, id \in ServiceIds : create_service(a, id, "ok")
    \/ \E a \in Admins, id \in ServiceIds : add_users_to_service(a, id, << TestEmail >>)
    \/ Respond

GateClockSpec == Init /\ [][GateClockNext]_vars

\* a run of the gate on the request of the last exchange, against the
\* tables and the clock as they are now, answers as the last exchange did
SameAnswer ==
    LET again == Decide(last.req) IN
    /\ last.code = again.code
    /\ last.email = again.email
    /\ last.resource_type = again.resource_type

\* no token of the request has reached its exp between the two times
SameExpiry(req, t1, t2) ==
    \A t \in Carried(req) : (exp(t) < t1) <=> (exp(t) < t2)

First(text, set) ==
    IF \E i \in 1..Len(text) : text[i] \in set
    THEN CHOOSE i \in 1..Len(text) : text[i] \in set /\ \A j \in 1..(i - 1) : text[j] \notin set
    ELSE Len(text) + 1

\* the index of the last sep in text, 0 when there is none
rfind(text, sep) ==
    IF \E i \in 1..Len(text) : text[i] = sep
    THEN CHOOSE i \in 1..Len(text) : text[i] = sep /\ \A j \in (i + 1)..Len(text) : text[j] # sep
    ELSE 0

\* text.strip("/")
RECURSIVE strip(_)
strip(text) ==
    IF text # << >> /\ Head(text) = "/" THEN strip(Tail(text))
    ELSE IF text # << >> /\ text[Len(text)] = "/" THEN strip(SubSeq(text, 1, Len(text) - 1))
    ELSE text

\* urllib.parse.urlparse on a url that starts with "http://" or "https://":
\* the netloc ends before the first of / ? #, the path before the first of
\* ? #, and a netloc with one bracket of a pair raises ValueError
urlparse(url) ==
    LET rest   == Tail(url)
        n      == First(rest, {"/", "?", "#"})
        netloc == SubSeq(rest, 1, n - 1)
        after  == SubSeq(rest, n, Len(rest))
        path   == SubSeq(after, 1, First(after, {"?", "#"}) - 1)
    IN  [scheme |-> IF Head(url) = "https://" THEN "https" ELSE "http",
         netloc |-> netloc,
         path   |-> path,
         raised |-> ("[" \in LexemesOf(netloc)) # ("]" \in LexemesOf(netloc))]

\* re.match(r"^(\d{1,3}\.){3}\d{1,3}$", host)
ip_pattern(host) ==
    LET groups == split(host, ".") IN
    /\ Len(groups) = 4
    /\ \A i \in 1..4 : /\ Len(groups[i]) \in 1..3
                       /\ \A k \in 1..Len(groups[i]) : groups[i][k] \in Digits

\* a faulty parse_service_url, which gives "/" for the path of a URL that has none
parse_service_url_slash(url) ==
    IF url = << >> THEN [NoInfo EXCEPT !.protocol = "http"]
    ELSE LET full   == IF Head(url) \in {"http://", "https://"} THEN url ELSE << "http://" >> \o url
             parsed == urlparse(full)
             colon  == rfind(parsed.netloc, ":")
             host   == IF colon > 0 THEN SubSeq(parsed.netloc, 1, colon - 1) ELSE parsed.netloc
             port   == IF colon > 0 /\ int(SubSeq(parsed.netloc, colon + 1, Len(parsed.netloc))) # ValueError
                       THEN << int(SubSeq(parsed.netloc, colon + 1, Len(parsed.netloc))) >>
                       ELSE << >>
         IN  IF parsed.raised THEN [NoInfo EXCEPT !.raised = TRUE]
             ELSE [protocol |-> parsed.scheme, host |-> host, port |-> port,
                   path |-> IF parsed.path = << >> THEN << "/" >> ELSE parsed.path,
                   is_ip |-> ip_pattern(host), raised |-> FALSE]

parse_service_url(url) ==
    IF url = << >> THEN [NoInfo EXCEPT !.protocol = "http"]
    ELSE LET \* if not url.startswith(("http://", "https://")): url = "http://" + url
             full   == IF Head(url) \in {"http://", "https://"} THEN url ELSE << "http://" >> \o url
             parsed == urlparse(full)
             \* netloc.rsplit(":", 1), and int(port_str) with its ValueError caught
             colon  == rfind(parsed.netloc, ":")
             host0  == IF colon > 0 THEN SubSeq(parsed.netloc, 1, colon - 1) ELSE parsed.netloc
             port_str == SubSeq(parsed.netloc, colon + 1, Len(parsed.netloc))
             port   == IF colon > 0 /\ int(port_str) # ValueError THEN << int(port_str) >> ELSE << >>
             \* if not host and parsed.path: the first part of the path is the host
             parts  == split(strip(parsed.path), "/")
             first  == First(strip(parsed.path), {"/"})
             moved  == host0 = << >> /\ parsed.path # << >>
             host   == IF moved THEN parts[1] ELSE host0
             path   == IF moved
                       THEN IF Len(parts) > 1
                            THEN SubSeq(strip(parsed.path), first, Len(strip(parsed.path)))
                            ELSE << >>
                       ELSE parsed.path
         IN  IF parsed.raised THEN [NoInfo EXCEPT !.raised = TRUE]
             ELSE [protocol |-> parsed.scheme, host |-> host, port |-> port,
                   \* a path that is there starts with "/" already
                   path |-> path, is_ip |-> ip_pattern(host), raised |-> FALSE]

\* the models.Service create_service builds: the protocol of the body wins
\* over the one of the URL, and a port that is not truthy is stored as None
db_service(protocol, url_info) ==
    [url_info EXCEPT !.protocol = IF protocol # "" THEN protocol ELSE url_info.protocol,
                     !.port = IF url_info.port # << >> /\ url_info.port[1] # 0
                              THEN url_info.port ELSE << >>]

\* f"{protocol}://"
SchemeText(protocol) == IF protocol = "https" THEN << "https://" >> ELSE << "http://" >>

\* {% if service.port %}:{{ service.port }}{% endif %}
PortIfTruthy(service) ==
    IF service.port # << >> /\ service.port[1] # 0 THEN << ":" >> \o str(service.port[1]) ELSE << >>

\* a faulty HTTP_TEMPLATE, which leaves the port out
HTTP_TEMPLATE_without_port(service) ==
    SchemeText(IF service.protocol = "https" THEN "https" ELSE "http") \o service.host

\* the proxy_pass line of HTTP_TEMPLATE
HTTP_TEMPLATE(service) ==
    SchemeText(IF service.protocol = "https" THEN "https" ELSE "http")
        \o service.host \o PortIfTruthy(service)

\* the proxy_pass line of HTTPS_TEMPLATE
HTTPS_TEMPLATE(service) == << "https://" >> \o service.host \o PortIfTruthy(service)

get_nginx_config(service) ==
    IF service.protocol = "https"
    THEN [template |-> "HTTPS_TEMPLATE", proxy_pass |-> HTTPS_TEMPLATE(service)]
    ELSE [template |-> "HTTP_TEMPLATE", proxy_pass |-> HTTP_TEMPLATE(service)]

\* a faulty full_url, which leaves base_path out
full_url_without_path(service) ==
    SchemeText(service.protocol) \o service.host
        \o (IF service.port # << >> THEN << ":" >> \o str(service.port[1]) ELSE << >>)

\* Service.full_url
full_url(service) ==
    SchemeText(service.protocol) \o service.host
        \o (IF service.port # << >> THEN << ":" >> \o str(service.port[1]) ELSE << >>)
        \o service.path

\* the URLs posted: with and without scheme; a name, an IPv4 literal, an
\* IPv6 literal, no host; without port, with one, with port 0, with a port
\* that is no number; without path, with one, with a query
Schemes == { << >>, << "http://" >>, << "https://" >> }
Hosts ==
    { << "a" >>, << "1", "0", ".", "0", ".", "0", ".", "5" >>, << "[", ":", ":", "1", "]" >>, << >> }
Ports == { << >>, << ":", "8", "0" >>, << ":", "0" >>, << ":" >>, << ":", "a" >> }
UrlPaths == { << >>, << "/" >>, << "/", "a" >>, << "/", "a", "/", "b" >>, << "/", "a", "?", "b" >> }
Urls == { s \o h \o p \o q : s \in Schemes, h \in Hosts, p \in Ports, q \in UrlPaths }

\* the protocol field of the body: absent, or one of the two
Protocols == {"", "http", "https"}

UrlInit ==
    /\ Started
    /\ \E url \in Urls, protocol \in Protocols :
           evaluation = [NoEvaluation EXCEPT !.step = "posted", !.url = url, !.protocol = protocol]

\* create_service parses the URL
Parse ==
    /\ evaluation.step = "posted"
    /\ evaluation' = [evaluation EXCEPT !.step = "parsed",
                                        !.url_info = parse_service_url(evaluation.url)]
    /\ UNCHANGED << registry, dialect, config_files, nginx_loaded, now, workers, last >>

\* create_service refuses a URL without host, and builds the row otherwise;
\* update_nginx_config renders the row
Build ==
    /\ evaluation.step = "parsed"
    /\ IF evaluation.url_info.host = << >>
       THEN evaluation' = [evaluation EXCEPT !.step = "refused"]
       ELSE LET service == db_service(evaluation.protocol, evaluation.url_info) IN
            evaluation' = [evaluation EXCEPT !.step = "built",
                                             !.service = service,
                                             !.config = get_nginx_config(service)]
    /\ UNCHANGED << registry, dialect, config_files, nginx_loaded, now, workers, last >>

\* a listing sets service.url = service.full_url, and the URL is parsed again
Render ==
    /\ evaluation.step = "built"
    /\ evaluation' = [evaluation EXCEPT !.step = "rendered",
                                        !.full_url = full_url(evaluation.service),
                                        !.again = parse_service_url(full_url(evaluation.service))]
    /\ UNCHANGED << registry, dialect, config_files, nginx_loaded, now, workers, last >>

UrlNext == Parse \/ Build \/ Render

UrlSpec == UrlInit /\ [][UrlNext]_vars

(***************************************************************************)
(* Properties of the URL of a service.                                     *)
(***************************************************************************)
\* the proxy_pass target the fragment of a service is to have
Target(service) ==
    (IF service.protocol = "https" THEN << "https://" >> ELSE << "http://" >>)
        \o service.host
        \o (IF service.port = << >> THEN << >> ELSE << ":" >> \o str(service.port[1]))

\* C22: the fragment get_nginx_config renders for a service with protocol p,
\* host h and port n has the proxy_pass target p://h:n when the port is set
\* and p://h when it is not, and it is rendered from the https template
\* exactly when p is https.
C22_ProxyPassTarget ==
    evaluation.step \in {"built", "rendered"}
        => /\ evaluation.config.proxy_pass = Target(evaluation.service)
           /\ evaluation.config.template = "HTTPS_TEMPLATE" <=> evaluation.service.protocol = "https"

\* the fragment of the service posted as http://10.0.0.5:80 is rendered
C22_Witness ==
    /\ evaluation.step = "built"
    /\ evaluation.service.protocol = "http"
    /\ evaluation.service.port = << 80 >>
    /\ evaluation.config.proxy_pass
           = << "http://", "1", "0", ".", "0", ".", "0", ".", "5", ":", "8", "0" >>

\* the URL starts with no scheme
SchemeOmitted(url) == Head(url) \notin {"http://", "https://"}

\* what follows the scheme of the URL
AfterScheme(url) == IF SchemeOmitted(url) THEN url ELSE Tail(url)

\* the authority of the URL: what follows the scheme, up to the path, the
\* query or the fragment
Authority(url) == SubSeq(AfterScheme(url), 1, First(AfterScheme(url), {"/", "?", "#"}) - 1)

\* the URL has a path after its authority
HasPath(url) ==
    /\ Len(Authority(url)) < Len(AfterScheme(url))
    /\ AfterScheme(url)[Len(Authority(url)) + 1] = "/"

\* the part of the authority before its last colon, all of it without colon
HostPart(url) ==
    IF rfind(Authority(url), ":") = 0 THEN Authority(url)
    ELSE SubSeq(Authority(url), 1, rfind(Authority(url), ":") - 1)

\* the number after the last colon of the authority, absent without colon
\* and when no number follows
PortPart(url) ==
    LET after == SubSeq(Authority(url), rfind(Authority(url), ":") + 1, Len(Authority(url))) IN
    IF rfind(Authority(url), ":") = 0 \/ int(after) = ValueError THEN << >> ELSE << int(after) >>

\* a non-empty URL has been parsed
Parsed == evaluation.step # "posted" /\ evaluation.url # << >>

\* C23 as it reads: on a non-empty URL parse_service_url gives protocol
\* http when the scheme is omitted, host and port split at the last colon
\* of the authority, the port absent when there is no colon, and the path
\* "/" when the URL has no path.
C23_ParseDefaultsSlash ==
    Parsed => /\ SchemeOmitted(evaluation.url) => evaluation.url_info.protocol = "http"
              /\ evaluation.url_info.host = HostPart(evaluation.url)
              /\ evaluation.url_info.port = PortPart(evaluation.url)
              /\ ~HasPath(evaluation.url) => evaluation.url_info.path = << "/" >>

\* C23: on a non-empty URL parse_service_url gives protocol http when the
\* scheme is omitted; host and port split at the last colon of the
\* authority when the part before it is not empty, the port absent when
\* there is no colon or no number follows it; and the empty path when the
\* URL has no path.
C23_ParseDefaults ==
    Parsed => /\ SchemeOmitted(evaluation.url) => evaluation.url_info.protocol = "http"
              /\ HostPart(evaluation.url) # << >>
                     => /\ evaluation.url_info.host = HostPart(evaluation.url)
                        /\ evaluation.url_info.port = PortPart(evaluation.url)
              /\ rfind(Authority(evaluation.url), ":") = 0 => evaluation.url_info.port = << >>
              /\ ~HasPath(evaluation.url) => evaluation.url_info.path = << >>

\* a:80, without scheme and without path, has been parsed
C23_Witness ==
    /\ evaluation.step = "parsed"
    /\ evaluation.url = << "a", ":", "8", "0" >>
    /\ evaluation.url_info.protocol = "http"
    /\ evaluation.url_info.host = << "a" >>
    /\ evaluation.url_info.port = << 80 >>
    /\ evaluation.url_info.path = << >>

\* the well-formed URLs among those posted: a host, and a port that is a
\* number of a port when there is one
WellFormed ==
    { s \o h \o p \o q : s \in Schemes, h \in Hosts \ {<< >>},
                         p \in {<< >>, << ":", "8", "0" >>}, q \in UrlPaths }

\* C24: for a well-formed URL u, parsing the full URL rendered from
\* parse_service_url(u) gives the protocol, host, port, path and is_ip that
\* parse_service_url(u) gave.
C24_RoundTrip ==
    (/\ evaluation.step = "rendered"
     /\ evaluation.protocol = ""
     /\ evaluation.url \in WellFormed)
        => /\ ~evaluation.again.raised
           /\ evaluation.again = evaluation.url_info

(***************************************************************************)
(* services.py, auth.py: create_service in two worker processes.  Each     *)
(* runs update_nginx_config step by step: the fragment is written, then    *)
(* "nginx -t" and "nginx -s reload" are executed in the one nginx          *)
(* container, which reads every fragment on disk.  valid tells whether     *)
(* nginx accepts the fragment of the service (it rejects, for one, a       *)
(* proxy_pass to a host it cannot resolve).                                *)
(***************************************************************************)
\* the workers inside update_nginx_config
InUpdate == {w \in Workers : workers[w].pc \in {"nginx_test", "nginx_reload"}}

\* a faulty container, which reads the fragment of the caller only
RejectedOwn(w) == ~workers[w].valid

\* whether nginx, run for worker w, finds a fragment it rejects among the
\* files of services.d: every worker between its write and its os.remove
\* has its file there
Rejected(w) == \E o \in InUpdate : ~workers[o].valid

\* create_service up to the write of the fragment: the admin test, db.add
\* and db.flush, and open(config_file, "w").  The flush takes the write
\* lock of an SQLite database and waits for it, up to the busy timeout,
\* while another worker holds it between its flush and its commit.
create_service_write(w, caller, id, valid) ==
    /\ last = Idle
    /\ workers[w].pc = "idle"
    /\ IF ~is_admin(caller)
       THEN Refuse("create_service", 403)
       ELSE IF id \in services \/ (dialect = "sqlite" /\ InUpdate # {})
       THEN \* IntegrityError, or OperationalError: database is locked
            Refuse("create_service", 500)
       ELSE \* the insert of an id another worker has flushed waits for that worker
            /\ \A o \in InUpdate : workers[o].service_id # id
            /\ workers' = [workers EXCEPT ![w] = [pc |-> "nginx_test", user_id |-> caller.id,
                                                   service_id |-> id, valid |-> valid]]
            /\ config_files' = config_files \cup {id}
            /\ UNCHANGED << registry, dialect, nginx_loaded, now, evaluation, last >>

\* what create_service does when update_nginx_config has raised: the file is
\* removed, nginx_updated is False, and the row is committed
create_service_failed(w) ==
    /\ config_files' = config_files \ {workers[w].service_id}
    /\ services' = services \cup {workers[w].service_id}
    /\ workers' = [workers EXCEPT ![w] = IdleWorker]
    /\ last' = [Exchange("create_service", 200) EXCEPT !.nginxUpdated = FALSE]
    /\ UNCHANGED << users, user_services, user_allowed_services, service_requests,
                    service_access, service_status, dialect, nginx_loaded, now, evaluation >>

\* nginx_container.exec_run("nginx -t")
create_service_nginx_test(w) ==
    /\ last = Idle
    /\ workers[w].pc = "nginx_test"
    /\ IF Rejected(w)
       THEN create_service_failed(w)
       ELSE /\ workers' = [workers EXCEPT ![w].pc = "nginx_reload"]
            /\ UNCHANGED << registry, deployment, last >>

\* nginx_container.exec_run("nginx -s reload"), and db.commit() after it
create_service_nginx_reload(w) ==
    /\ last = Idle
    /\ workers[w].pc = "nginx_reload"
    /\ IF Rejected(w)
       THEN create_service_failed(w)
       ELSE /\ nginx_loaded' = config_files
            /\ services' = services \cup {workers[w].service_id}
            /\ workers' = [workers EXCEPT ![w] = IdleWorker]
            /\ last' = [Exchange("create_service", 200) EXCEPT !.nginxUpdated = TRUE]
            /\ UNCHANGED << users, user_services, user_allowed_services, service_requests,
                            service_access, service_status, dialect, config_files, now,
                            evaluation >>

\* the services posted: 12, whose fragment nginx accepts, and a1, whose
\* fragment it rejects
ValidId == << "1", "2" >>
InvalidId == << "a", "1" >>

FragmentNext ==
    \/ \E w \in Workers, u \in users : create_service_write(w, u, ValidId, TRUE)
    \/ \E w \in Workers, u \in users : create_service_write(w, u, InvalidId, FALSE)
    \/ \E w \in Workers : create_service_nginx_test(w)
    \/ \E w \in Workers : create_service_nginx_reload(w)
    \/ \E a \in Admins, id \in ServiceIds : delete_service(a, id, 0)
    \/ Respond

FragmentSpec == Init /\ [][FragmentNext]_vars

\* C25: update_nginx_config holds no lock: while the rejected fragment of
\* another invocation lies on disk, the "nginx -t" or "nginx -s reload" of
\* an invocation whose own fragment is valid fails, and the invocation
\* removes its fragment and reports that nginx was not updated.
C25_ValidFragmentFailsOnOthers ==
    [][\A w \in Workers :
          (/\ w \in InUpdate
           /\ workers[w].valid
           /\ workers'[w].pc = "idle"
           /\ \E o \in InUpdate \ {w} : ~workers[o].valid)
              => /\ workers[w].service_id \notin config_files'
                 /\ workers[w].service_id \in services'
                 /\ last'.op = "create_service"
                 /\ ~last'.nginxUpdated]_vars

\* the invocation for 12 has answered that nginx was not updated and its
\* fragment is gone, while the invocation for a1 is between its write and
\* its "nginx -t"
C25_Witness ==
    /\ last.op = "create_service"
    /\ last.code = 200
    /\ ~last.nginxUpdated
    /\ ValidId \in services
    /\ ValidId \notin config_files
    /\ ValidId \notin nginx_loaded
    /\ \E o \in Workers : /\ workers[o].pc = "nginx_test"
                          /\ workers[o].service_id = InvalidId

(***************************************************************************)
(* More properties of the accounts.                                        *)
(***************************************************************************)
\* C26: login hands out a token only for a correct password and a user who
\* is approved or an admin, so a user who is rejected or pending and no
\* admin never obtains one.
C26_TokenOnlyForApproved ==
    (last.op = "login" /\ last.code = 200)
        => \A u \in UserByEmail(last.email) : u.status = "approved" \/ u.is_admin

\* C30: no user whose is_admin is true is ever deleted, and the user with
\* id 1 never is.
C30_AdminsAreNotDeleted ==
    [][/\ \A u \in users : u.is_admin => \E n \in users' : n.id = u.id
       /\ \E n \in users' : n.id = AdminId]_vars

(***************************************************************************)
(* More properties of the fragments and of the registry.                   *)
(***************************************************************************)
\* C27: a fragment file service_<id>.conf is on disk only if the services
\* row of that id exists, so a deletion that succeeded leaves no fragment
\* of the service deleted.
C27_FragmentOnlyWithRow == \A id \in config_files : id \in services

\* C28: create_service_request succeeds only if the pair of the user and
\* the service is in user_allowed_services.
C28_RequestOnlyForAllowedService ==
    [][(last'.op = "create_service_request" /\ last'.code = 200)
           => \A r \in service_requests' \ service_requests :
                  [user_id |-> r.user_id, service_id |-> r.service_id]
                      \in user_allowed_services]_vars

\* C29: delete_service_user on a pair without Grant reports an error and
\* leaves the Grants and the access requests as they were.
C29_RevokeWithoutGrantChangesNothing ==
    [][(last'.op = "delete_service_user" /\ last'.code # 200)
           => UNCHANGED << user_services, service_requests >>]_vars
====
